---------------------------- MODULE Spec2Model ----------------------------
(***************************************************************************)
(* goignore: a gitignore pattern compiler and path matcher.                *)
(*                                                                         *)
(* Strings are modelled as sequences of one-character strings, so that    *)
(* indexing, slicing and splitting are what the Go code does on bytes.     *)
(* A Go panic (index out of range) is modelled as an explicit outcome.     *)
(***************************************************************************)
EXTENDS Integers, Sequences, FiniteSets, TLC

(***************************************************************************)
(* Slices                                                                  *)
(***************************************************************************)

\* s[n:] of Go, for 0 <= n <= len(s)
Drop(s, n) == SubSeq(s, n + 1, Len(s))

\* s[l:r] of Go, for 0 <= l <= r <= len(s)
Slice(s, l, r) == SubSeq(s, l + 1, r)

\* strings.HasSuffix(s, c) for a one-character suffix c
HasSuffix(s, c) == Len(s) > 0 /\ s[Len(s)] = c

(***************************************************************************)
(* mySplit (goignore.go:13-28)                                             *)
(***************************************************************************)

\* the number of slots of the buffer mySplit allocates
SplitCap == 1024

RECURSIVE mySplitLoop(_, _, _, _, _)
\* the loop "for l, r := 0, 0; r <= len(s); r++" with the components found so far
mySplitLoop(s, sep, l, r, out) ==
    IF r > Len(s) THEN out
    ELSE IF r = Len(s) \/ s[r + 1] = sep
         THEN mySplitLoop(s, sep, r + 1, r + 1,
                          IF r > l THEN Append(out, Slice(s, l, r)) ELSE out)
         ELSE mySplitLoop(s, sep, l, r + 1, out)

\* the non-empty substrings of s between separators
mySplit(s, sep) == mySplitLoop(s, sep, 0, 0, <<>>)

\* pathComponents[idx] = ... with idx = 1024 is an index out of range
mySplitPanics(s, sep) == Len(mySplit(s, sep)) > SplitCap

(***************************************************************************)
(* stringMatch (goignore.go:42-77)                                         *)
(***************************************************************************)

RECURSIVE stringMatchLoop(_, _, _, _)
\* the loop of stringMatch at text index i and pattern index j (0-based)
stringMatchLoop(str, pattern, i, j) ==
    IF i < Len(str)
    THEN IF j >= Len(pattern) THEN FALSE
         ELSE IF pattern[j + 1] = "?"
              THEN stringMatchLoop(str, pattern, i + 1, j + 1)
         ELSE IF pattern[j + 1] = "*"
              THEN \E k \in i..Len(str) :
                       stringMatchLoop(Drop(str, k), Drop(pattern, j + 1), 0, 0)
         ELSE IF str[i + 1] # pattern[j + 1] THEN FALSE
              ELSE stringMatchLoop(str, pattern, i + 1, j + 1)
    ELSE ~(j < Len(pattern) - 1)

\* whether one path component matches one pattern component
stringMatch(str, pattern) == stringMatchLoop(str, pattern, 0, 0)

(***************************************************************************)
(* matchComponents (goignore.go:82-106)                                    *)
(***************************************************************************)

DoubleStar == <<"*", "*">>

NoMatch == [matches |-> FALSE, final |-> FALSE]

RECURSIVE matchComponentsLoop(_, _, _)
RECURSIVE doubleStarLoop(_, _, _, _)

RECURSIVE doubleStarLoop_AtLeastOne(_, _, _, _)
\* doubleStarLoop with the loop bound "j > i": "**" absorbs at least one
\* path component
doubleStarLoop_AtLeastOne(path, components, i, j) ==
    IF j > i
    THEN LET sub == matchComponentsLoop(Drop(path, j), Drop(components, i + 1), 0)
         IN  IF sub.matches
             THEN [matches |-> TRUE, final |-> sub.final]
             ELSE doubleStarLoop_AtLeastOne(path, components, i, j - 1)
    ELSE NoMatch

\* the loop "for j := len(path) - 1; j >= i; j--" of the "**" branch
doubleStarLoop(path, components, i, j) ==
    IF j >= i
    THEN LET sub == matchComponentsLoop(Drop(path, j), Drop(components, i + 1), 0)
         IN  IF sub.matches
             THEN [matches |-> TRUE, final |-> sub.final]
             ELSE doubleStarLoop(path, components, i, j - 1)
    ELSE NoMatch

\* the loop "for ; i < len(components); i++" at component index i (0-based)
matchComponentsLoop(path, components, i) ==
    IF i < Len(components)
    THEN IF i >= Len(path) THEN NoMatch
         ELSE IF components[i + 1] = DoubleStar
              THEN doubleStarLoop(path, components, i, Len(path) - 1)
         ELSE IF ~stringMatch(path[i + 1], components[i + 1]) THEN NoMatch
         ELSE matchComponentsLoop(path, components, i + 1)
    ELSE [matches |-> TRUE, final |-> (i = Len(path))]

\* (matches, final) of the path components against the rule components
matchComponents(path, components) == matchComponentsLoop(path, components, 0)

(***************************************************************************)
(* Rule.Match (goignore.go:109-128)                                        *)
(***************************************************************************)

\* !r.OnlyDirectory || r.OnlyDirectory && (!final || final && hasSuffix)
DirectoryPolicy(r, final, hasSuffix) ==
    ~r.OnlyDirectory \/ (r.OnlyDirectory /\ (~final \/ (final /\ hasSuffix)))

RECURSIVE suffixLoop(_, _, _, _)
\* the loop "for j := len(pathComponents) - 1; j >= 0; j--" of a non-Relative rule
suffixLoop(r, pathComponents, hasSuffix, j) ==
    IF j >= 0
    THEN LET m == matchComponents(Drop(pathComponents, j), r.Components)
         IN  IF m.matches
             THEN DirectoryPolicy(r, m.final, hasSuffix)
             ELSE suffixLoop(r, pathComponents, hasSuffix, j - 1)
    ELSE FALSE

\* Rule.Match with a negated rule matching only the path it names, not the
\* paths beneath it
RuleMatch_NegatedExact(r, path) ==
    LET hasSuffix == HasSuffix(path, "/")
        pathComponents == mySplit(path, "/")
        exact(m) == r.Negate => m.final
    IN  IF ~r.Relative
        THEN \E j \in 0..(Len(pathComponents) - 1) :
                 LET m == matchComponents(Drop(pathComponents, j), r.Components)
                 IN  m.matches /\ exact(m) /\ DirectoryPolicy(r, m.final, hasSuffix)
        ELSE LET m == matchComponents(pathComponents, r.Components)
             IN  m.matches /\ exact(m) /\ DirectoryPolicy(r, m.final, hasSuffix)

\* Rule.Match with a match counting only when it consumes the whole path
RuleMatch_WholePath(r, path) ==
    LET hasSuffix == HasSuffix(path, "/")
        pathComponents == mySplit(path, "/")
    IN  IF ~r.Relative
        THEN \E j \in 0..(Len(pathComponents) - 1) :
                 LET m == matchComponents(Drop(pathComponents, j), r.Components)
                 IN  m.matches /\ m.final /\ DirectoryPolicy(r, m.final, hasSuffix)
        ELSE LET m == matchComponents(pathComponents, r.Components)
             IN  m.matches /\ m.final /\ DirectoryPolicy(r, m.final, hasSuffix)

\* whether rule r matches the path string
RuleMatch(r, path) ==
    LET hasSuffix == HasSuffix(path, "/")
        pathComponents == mySplit(path, "/")
    IN  IF ~r.Relative
        THEN suffixLoop(r, pathComponents, hasSuffix, Len(pathComponents) - 1)
        ELSE LET m == matchComponents(pathComponents, r.Components)
             IN  m.matches /\ DirectoryPolicy(r, m.final, hasSuffix)

(***************************************************************************)
(* createRule (goignore.go:164-196)                                        *)
(***************************************************************************)

\* the outcome of a call that panicked: no value is returned
Panicked == [panic |-> TRUE]

\* createRule with Relative set by the leading '/' alone
createRule_AnchorOnlyOnSlash(pattern) ==
    LET negate == pattern[1] = "!"
        p1 == IF negate THEN Tail(pattern) ELSE pattern
    IN  IF Len(p1) = 0 THEN Panicked
        ELSE
        LET relative == p1[1] = "/"
            p2 == IF relative THEN Tail(p1) ELSE p1
        IN  IF Len(p2) = 0 THEN Panicked
            ELSE
            LET p3 == IF p2[1] = "\\" THEN Tail(p2) ELSE p2
            IN  IF Len(p3) = 0 THEN Panicked
                ELSE
                [panic |-> FALSE,
                 rule |-> [Components |-> mySplit(p3, "/"),
                           Negate |-> negate,
                           OnlyDirectory |-> p3[Len(p3)] = "/",
                           Relative |-> relative]]

\* createRule with the escaping '\' dropped before the '!' and '/' are looked
\* for, so that an escaped '!' negates
createRule_EscapeFirst(pattern) ==
    LET p0 == IF pattern[1] = "\\" THEN Tail(pattern) ELSE pattern
    IN  IF Len(p0) = 0 THEN Panicked
        ELSE
        LET negate == p0[1] = "!"
            p1 == IF negate THEN Tail(p0) ELSE p0
        IN  IF Len(p1) = 0 THEN Panicked
            ELSE
            LET relative == p1[1] = "/"
                p2 == IF relative THEN Tail(p1) ELSE p1
            IN  IF Len(p2) = 0 THEN Panicked
                ELSE
                [panic |-> FALSE,
                 rule |-> [Components |-> mySplit(p2, "/"),
                           Negate |-> negate,
                           OnlyDirectory |-> p2[Len(p2)] = "/",
                           Relative |-> relative \/ Len(mySplit(p2, "/")) > 1]]

\* create a rule from a pattern; the caller passes a non-empty pattern.
\* Every read pattern[0] and pattern[len(pattern)-1] of an empty pattern is
\* an index out of range.
createRule(pattern) ==
    LET negate == pattern[1] = "!"
        p1 == IF negate THEN Tail(pattern) ELSE pattern
    IN  IF Len(p1) = 0 THEN Panicked
        ELSE
        LET relative == p1[1] = "/"
            p2 == IF relative THEN Tail(p1) ELSE p1
        IN  IF Len(p2) = 0 THEN Panicked
            ELSE
            LET p3 == IF p2[1] = "\\" THEN Tail(p2) ELSE p2
            IN  IF Len(p3) = 0 THEN Panicked
                ELSE
                LET onlyDirectory == p3[Len(p3)] = "/"
                    components == mySplit(p3, "/")
                IN  IF mySplitPanics(p3, "/") THEN Panicked
                    ELSE
                    [panic |-> FALSE,
                     rule |-> [Components |-> components,
                               Negate |-> negate,
                               OnlyDirectory |-> onlyDirectory,
                               Relative |-> relative \/ Len(components) > 1]]

(***************************************************************************)
(* CompileIgnoreLines, CompileIgnoreFile (goignore.go:136-161)             *)
(***************************************************************************)

\* the cutset of strings.Trim(pattern, " \t\r\n")
TrimCutset == {" ", "\t", "\r", "\n"}

RECURSIVE TrimLeft(_)
TrimLeft(s) ==
    IF Len(s) > 0 /\ s[1] \in TrimCutset THEN TrimLeft(Tail(s)) ELSE s

RECURSIVE TrimRight(_)
TrimRight(s) ==
    IF Len(s) > 0 /\ s[Len(s)] \in TrimCutset
    THEN TrimRight(SubSeq(s, 1, Len(s) - 1))
    ELSE s

\* strings.Trim(s, " \t\r\n")
Trim(s) == TrimRight(TrimLeft(s))

RECURSIVE compileLoop(_, _, _)
\* the loop "for _, pattern := range patterns" from line idx (1-based) on
compileLoop(patterns, idx, rules) ==
    IF idx > Len(patterns) THEN [panic |-> FALSE, gitignore |-> [Rules |-> rules]]
    ELSE LET pattern == Trim(patterns[idx])
         IN  IF Len(pattern) = 0 \/ pattern[1] = "#"
             THEN compileLoop(patterns, idx + 1, rules)
             ELSE LET c == createRule(pattern)
                  IN  IF c.panic THEN Panicked
                      ELSE compileLoop(patterns, idx + 1, Append(rules, c.rule))

\* creates a Gitignore from a list of patterns
CompileIgnoreLines(patterns) == compileLoop(patterns, 1, <<>>)

RECURSIVE splitLoop(_, _, _, _)
splitLoop(s, sep, l, r) ==
    IF r > Len(s) THEN << Slice(s, l, Len(s)) >>
    ELSE IF s[r] = sep
         THEN << Slice(s, l, r - 1) >> \o splitLoop(s, sep, r, r + 1)
         ELSE splitLoop(s, sep, l, r + 1)

\* strings.Split(s, sep) for a one-character sep: every substring between
\* separators, the empty ones included; one empty string for empty s
Split(s, sep) == splitLoop(s, sep, 0, 1)

RECURSIVE Join(_, _)
\* the bytes of a file whose lines are the given ones
Join(lines, sep) ==
    IF Len(lines) = 0 THEN <<>>
    ELSE IF Len(lines) = 1 THEN lines[1]
    ELSE lines[1] \o <<sep>> \o Join(Tail(lines), sep)

NoError == "nil"
ReadError == "read error"

\* os.ReadFile: the bytes and a nil error, or no bytes and the error
ReadFile(readable, content) ==
    IF readable THEN [lines |-> content, err |-> NoError]
    ELSE [lines |-> <<>>, err |-> ReadError]

\* same as CompileIgnoreLines, but reads from a file: the Gitignore of the
\* bytes read (none on a failed read) is returned together with the error
CompileIgnoreFile(readable, content) ==
    LET f == ReadFile(readable, content)
        c == CompileIgnoreLines(Split(f.lines, "\n"))
    IN  IF c.panic THEN Panicked
        ELSE [panic |-> FALSE, gitignore |-> c.gitignore, err |-> f.err]

(***************************************************************************)
(* Gitignore.Match (goignore.go:199-212)                                   *)
(***************************************************************************)

\* the values of os.PathSeparator: '/' everywhere but on Windows
Separators == {"/", "\\"}

\* filepath.ToSlash: replaces each separator of the build by a slash
ToSlash(path, sep) ==
    IF sep = "/" THEN path
    ELSE [i \in 1..Len(path) |-> IF path[i] = sep THEN "/" ELSE path[i]]

RECURSIVE matchLoop(_, _, _, _)
\* the loop "for _, rule := range g.Rules" from rule idx (1-based) on
matchLoop(rules, path, idx, matched) ==
    IF idx > Len(rules) THEN matched
    ELSE matchLoop(rules, path, idx + 1,
                   IF RuleMatch(rules[idx], path)
                   THEN (IF ~rules[idx].Negate THEN TRUE ELSE FALSE)
                   ELSE matched)

RECURSIVE matchLoop_FirstWins(_, _, _)
matchLoop_FirstWins(rules, path, idx) ==
    IF idx > Len(rules) THEN FALSE
    ELSE IF RuleMatch(rules[idx], path) THEN ~rules[idx].Negate
    ELSE matchLoop_FirstWins(rules, path, idx + 1)

\* Gitignore.Match with the loop left at the first rule that matches
GitignoreMatch_FirstWins(g, path, sep) ==
    matchLoop_FirstWins(g.Rules, ToSlash(path, sep), 1)

\* tries to match the path to all the rules in the gitignore
GitignoreMatch(g, path, sep) == matchLoop(g.Rules, ToSlash(path, sep), 1, FALSE)

\* rule.Match(path) of every rule, in order
RuleHits(g, path, sep) ==
    [i \in 1..Len(g.Rules) |-> RuleMatch(g.Rules[i], ToSlash(path, sep))]

\* Rule.Match splits the path once per rule; mySplit panics on a path of more
\* components than its buffer has slots
MatchPanics(g, path, sep) ==
    Len(g.Rules) > 0 /\ mySplitPanics(ToSlash(path, sep), "/")

(***************************************************************************)
(* Pattern lists and paths of the repository's tests                      *)
(***************************************************************************)

\* TestCompileIgnoreLines_HandleIncludePattern
LinesIncludePattern ==
    <<
       <<"/", "*">>,
       <<"!", "/", "f", "o", "o">>,
       <<"/", "f", "o", "o", "/", "*">>,
       <<"!", "/", "f", "o", "o", "/", "b", "a", "r">>
    >>

\* TestCompileIgnoreLines_HandleIncludePattern (first two lines)
LinesNegateFoo ==
    <<
       <<"/", "*">>,
       <<"!", "/", "f", "o", "o">>
    >>

\* TestCompileIgnoreLines_HandleLeadingSlash
LinesLeadingSlash ==
    <<
       <<"/", "a", "/", "b", "/", "c">>,
       <<"d", "/", "e", "/", "f">>,
       <<"/", "g">>
    >>

\* TestCompileIgnoreLines_HandleLeadingSpecialChars
LinesLeadingSpecialChars ==
    <<
       <<"#", " ", "C", "o", "m", "m", "e", "n", "t">>,
       <<"\\", "#", "f", "i", "l", "e", ".", "t", "x", "t">>,
       <<"\\", "!", "f", "i", "l", "e", ".", "t", "x", "t">>,
       <<"f", "i", "l", "e", ".", "t", "x", "t">>
    >>

\* TestCompileIgnoreLines_HandleLeadingSpecialChars (second line)
LinesEscapedHash ==
    <<
       <<"\\", "#", "f", "i", "l", "e", ".", "t", "x", "t">>
    >>

\* TestCompileIgnoreLines_HandleAllFilesInDir
LinesAllFilesInDir ==
    <<
       <<"D", "o", "c", "u", "m", "e", "n", "t", "a", "t", "i", "o", "n", "/", "*", ".", "h", "t", "m", "l">>
    >>

\* TestCompileIgnoreLines_HandleDoubleStar
LinesDoubleStar ==
    <<
       <<"*", "*", "/", "f", "o", "o">>,
       <<"b", "a", "r">>
    >>

\* TestCompileIgnoreLines_HandleLeadingSlashPath
LinesLeadingSlashPath ==
    <<
       <<"/", "*", ".", "c">>
    >>

\* ExampleCompileIgnoreLines
LinesExample ==
    <<
       <<"n", "o", "d", "e", "_", "m", "o", "d", "u", "l", "e", "s">>,
       <<"*", ".", "o", "u", "t">>,
       <<"f", "o", "o", "/", "*", ".", "c">>
    >>

\* TestCompileIgnoreLines_CheckNestedDotFiles
LinesNestedDotFiles ==
    <<
       <<"*", "*", "/", "e", "x", "t", "e", "r", "n", "a", "l", "/", "*", "*", "/", "*", ".", "m", "d">>,
       <<"*", "*", "/", "e", "x", "t", "e", "r", "n", "a", "l", "/", "*", "*", "/", ".", "*", "i", "g", "n", "o", "r", "e">>,
       <<"*", "*", "/", "e", "x", "t", "e", "r", "n", "a", "l", "/", "f", "o", "o", "b", "a", "r", "/", "*", ".", "c", "s", "s">>
    >>

\* TestCompileIgnoreLines_CarriageReturn
LinesCarriageReturn ==
    <<
       <<"a", "b", "c", "/", "d", "e", "f", "\r">>,
       <<"a", "/", "b", "/", "c", "\r">>,
       <<"b", "\r">>
    >>

\* TestPrecedingSlash
LinesPrecedingSlash ==
    <<
       <<"/", "f", "o", "o">>,
       <<"b", "a", "r", "/">>
    >>

\* TestDirOnlyMatching
LinesDirOnly ==
    <<
       <<"f", "o", "o", "/">>,
       <<"b", "a", "r", "/">>
    >>

\* TestDirOnlyMatching (first line)
LinesFooDir ==
    <<
       <<"f", "o", "o", "/">>
    >>

ExampleLists ==
    {
       LinesIncludePattern, LinesNegateFoo, LinesLeadingSlash,
       LinesLeadingSpecialChars, LinesEscapedHash, LinesAllFilesInDir,
       LinesDoubleStar, LinesLeadingSlashPath, LinesExample,
       LinesNestedDotFiles, LinesCarriageReturn, LinesPrecedingSlash,
       LinesDirOnly, LinesFooDir
    }

\* the path "a"
PathA == <<"a">>

\* the path "foo/baz"
PathFooBaz == <<"f", "o", "o", "/", "b", "a", "z">>

\* the path "foo"
PathFoo == <<"f", "o", "o">>

\* the path "/foo/bar"
PathSlashFooBar == <<"/", "f", "o", "o", "/", "b", "a", "r">>

\* the path "foo/bar"
PathFooBar == <<"f", "o", "o", "/", "b", "a", "r">>

\* the path "a/b/c"
PathABC == <<"a", "/", "b", "/", "c">>

\* the path "a/b/c/d"
PathABCD == <<"a", "/", "b", "/", "c", "/", "d">>

\* the path "d/e/f"
PathDEF == <<"d", "/", "e", "/", "f">>

\* the path "g"
PathG == <<"g">>

\* the path "#file.txt"
PathHashFile == <<"#", "f", "i", "l", "e", ".", "t", "x", "t">>

\* the path "!file.txt"
PathBangFile == <<"!", "f", "i", "l", "e", ".", "t", "x", "t">>

\* the path "a/!file.txt"
PathABangFile == <<"a", "/", "!", "f", "i", "l", "e", ".", "t", "x", "t">>

\* the path "a/#file.txt"
PathAHashFile == <<"a", "/", "#", "f", "i", "l", "e", ".", "t", "x", "t">>

\* the path "file.txt"
PathFile == <<"f", "i", "l", "e", ".", "t", "x", "t">>

\* the path "a/file.txt"
PathAFile == <<"a", "/", "f", "i", "l", "e", ".", "t", "x", "t">>

\* the path "file2.txt"
PathFile2 == <<"f", "i", "l", "e", "2", ".", "t", "x", "t">>

\* the path "Documentation/git.html"
PathDocGit ==
    <<
       "D", "o", "c", "u", "m", "e", "n", "t", "a", "t", "i", "o", "n", "/",
       "g", "i", "t", ".", "h", "t", "m", "l"
    >>

\* the path "Documentation/ppc/ppc.html"
PathDocPpc ==
    <<
       "D", "o", "c", "u", "m", "e", "n", "t", "a", "t", "i", "o", "n", "/",
       "p", "p", "c", "/", "p", "p", "c", ".", "h", "t", "m", "l"
    >>

\* the path "tools/perf/Documentation/perf.html"
PathToolsPerfDoc ==
    <<
       "t", "o", "o", "l", "s", "/", "p", "e", "r", "f", "/", "D", "o", "c",
       "u", "m", "e", "n", "t", "a", "t", "i", "o", "n", "/", "p", "e", "r",
       "f", ".", "h", "t", "m", "l"
    >>

\* the path "baz/foo"
PathBazFoo == <<"b", "a", "z", "/", "f", "o", "o">>

\* the path "bar"
PathBar == <<"b", "a", "r">>

\* the path "baz/bar"
PathBazBar == <<"b", "a", "z", "/", "b", "a", "r">>

\* the path "hello.c"
PathHelloC == <<"h", "e", "l", "l", "o", ".", "c">>

\* the path "foo/hello.c"
PathFooHelloC == <<"f", "o", "o", "/", "h", "e", "l", "l", "o", ".", "c">>

\* the path "node_modules/test/foo.js"
PathNodeModulesFooJs ==
    <<
       "n", "o", "d", "e", "_", "m", "o", "d", "u", "l", "e", "s", "/", "t",
       "e", "s", "t", "/", "f", "o", "o", ".", "j", "s"
    >>

\* the path "node_modules2/test.out"
PathNodeModules2Out ==
    <<
       "n", "o", "d", "e", "_", "m", "o", "d", "u", "l", "e", "s", "2", "/",
       "t", "e", "s", "t", ".", "o", "u", "t"
    >>

\* the path "test/foo.js"
PathTestFooJs == <<"t", "e", "s", "t", "/", "f", "o", "o", ".", "j", "s">>

\* the path "external/foobar/angular.foo.css"
PathExternalCss ==
    <<
       "e", "x", "t", "e", "r", "n", "a", "l", "/", "f", "o", "o", "b", "a",
       "r", "/", "a", "n", "g", "u", "l", "a", "r", ".", "f", "o", "o", ".",
       "c", "s", "s"
    >>

\* the path "external/barfoo/.gitignore"
PathExternalGitignore ==
    <<
       "e", "x", "t", "e", "r", "n", "a", "l", "/", "b", "a", "r", "f", "o",
       "o", "/", ".", "g", "i", "t", "i", "g", "n", "o", "r", "e"
    >>

\* the path "abc/def/child"
PathAbcDefChild ==
    <<
       "a", "b", "c", "/", "d", "e", "f", "/", "c", "h", "i", "l", "d"
    >>

\* the path "abc"
PathAbc == <<"a", "b", "c">>

\* the path "def"
PathDef == <<"d", "e", "f">>

\* the path "bd"
PathBd == <<"b", "d">>

\* the path "abc\\def\\child"
PathWindows ==
    <<
       "a", "b", "c", "\\", "d", "e", "f", "\\", "c", "h", "i", "l", "d"
    >>

\* the path "/boo/something/bar/boo.txt"
PathBooBar ==
    <<
       "/", "b", "o", "o", "/", "s", "o", "m", "e", "t", "h", "i", "n", "g",
       "/", "b", "a", "r", "/", "b", "o", "o", ".", "t", "x", "t"
    >>

\* the path "something/foo/something.txt"
PathSomethingFoo ==
    <<
       "s", "o", "m", "e", "t", "h", "i", "n", "g", "/", "f", "o", "o", "/",
       "s", "o", "m", "e", "t", "h", "i", "n", "g", ".", "t", "x", "t"
    >>

\* the path "foo/"
PathFooDir == <<"f", "o", "o", "/">>

\* the path "bar/"
PathBarDir == <<"b", "a", "r", "/">>

\* the path "bar/foo"
PathBarFoo == <<"b", "a", "r", "/", "f", "o", "o">>

ExamplePaths ==
    {
       PathA, PathFooBaz, PathFoo, PathSlashFooBar, PathFooBar, PathABC,
       PathABCD, PathDEF, PathG, PathHashFile, PathBangFile, PathABangFile,
       PathAHashFile, PathFile, PathAFile, PathFile2, PathDocGit,
       PathDocPpc, PathToolsPerfDoc, PathBazFoo, PathBar, PathBazBar,
       PathHelloC, PathFooHelloC, PathNodeModulesFooJs, PathNodeModules2Out,
       PathTestFooJs, PathExternalCss, PathExternalGitignore,
       PathAbcDefChild, PathAbc, PathDef, PathBd, PathWindows, PathBooBar,
       PathSomethingFoo, PathFooDir, PathBarDir, PathBarFoo
    }

(***************************************************************************)
(* Inputs                                                                  *)
(***************************************************************************)

\* the most characters in a generated pattern line
MaxLineLen == 3
\* the most characters in a generated path
MaxPathLen == 3

\* the characters of generated pattern lines: a literal, the wildcard, the
\* separator and the negation mark
LineChars == {"a", "*", "/", "!"}

\* the characters of generated paths
PathChars == {"a", "b", "/"}

\* the strings over chars of lo to hi characters
Strings(chars, lo, hi) == UNION {[1..k -> chars] : k \in lo..hi}

\* every line of at most MaxLineLen characters, alone in its list
SingleLineLists == {<<l>> : l \in Strings(LineChars, 1, MaxLineLen)}

\* lines that exclude or re-include a name, every name, or a directory
ShortLines ==
    {
       <<"a">>, <<"!", "a">>, <<"b">>, <<"!", "b">>,
       <<"*">>, <<"!", "*">>, <<"a", "/">>, <<"!", "a", "/">>
    }

\* every list of two short lines
PairLists == {<<l1, l2>> : l1, l2 \in ShortLines}

\* a backslash where createRule looks for one, after each prefix it strips
\* and before nothing, a name, a control character or a separator
EscapeLists ==
    {<<prefix \o <<"\\">> \o rest>> :
        prefix \in {<<>>, <<"!">>, <<"/">>, <<"!", "/">>},
        rest \in Strings({"a", "!", "#", "/"}, 0, 1)}

\* short pattern lists over the generated paths' characters: comments, blank
\* and padded lines, escapes, "**" before, after and between components
EdgeLists ==
    {
       << <<"#">> >>,
       << <<"#", "a">>, <<"a">> >>,
       << <<" ", "#", "a">> >>,
       << <<"\\", "#", "a">> >>,
       << <<"!", "\\", "#", "a">> >>,
       << <<>>, <<" ", "a", "\t">>, <<"\r">> >>,
       << <<"*", "*", "/", "a">> >>,
       << <<"*", "*", "/", "a", "/">> >>,
       << <<"a", "/", "*", "*">> >>,
       << <<"a", "/", "*", "*", "/", "b">> >>,
       << <<"*", "*", "/", "*", "*", "/", "a">> >>,
       << <<"*">>, <<"!", "*", "*", "/", "b">> >>,
       << <<"a", "?">>, <<"!", "a", "b">> >>,
       << <<"a", "/", "b">>, <<"!", "b">> >>,
       << <<"a", "b", "/">> >>
    }

PatternLists ==
    {<<>>} \cup SingleLineLists \cup PairLists \cup EscapeLists
           \cup EdgeLists \cup ExampleLists

Paths == Strings(PathChars, 0, MaxPathLen) \cup ExamplePaths

(***************************************************************************)
(* The revision with bracket expressions and one buffer for every query    *)
(* (src/unnamed/part_002:192-478): stringMatch                             *)
(***************************************************************************)

\* the byte of a character, for the comparisons of a range
Byte(c) ==
    CASE c = "!" -> 33
      [] c = "*" -> 42
      [] c = "-" -> 45
      [] c = "/" -> 47
      [] c = "?" -> 63
      [] c = "[" -> 91
      [] c = "\\" -> 92
      [] c = "]" -> 93
      [] c = "a" -> 97
      [] c = "b" -> 98
      [] c = "c" -> 99

\* stringMatch has returned b
Matches(b) == [panic |-> FALSE, matches |-> b]

RECURSIVE stringMatchBracketLoop(_, _, _, _)
RECURSIVE starLoop(_, _, _, _, _)
RECURSIVE bracketBodyLoop(_, _, _, _, _)

\* the loop "for k := len(str); k >= i; k--" of the '*' case: the first
\* recursive call that succeeds, or panics, ends it
starLoop(str, pattern, i, j, k) ==
    IF k >= i
    THEN LET r == stringMatchBracketLoop(Drop(str, k), Drop(pattern, j + 1), 0, 0)
         IN  IF r.panic THEN Panicked
             ELSE IF r.matches THEN Matches(TRUE)
             ELSE starLoop(str, pattern, i, j, k - 1)
    ELSE Matches(FALSE)

\* the loop "for ; j < len(pattern) && pattern[j] != ']'; j++" over the body
\* of a bracket expression; it reads pattern[j+1] and pattern[j+2] without
\* checking that they exist.  j is where the loop stopped.
bracketBodyLoop(str, pattern, i, j, matched) ==
    IF j < Len(pattern) /\ pattern[j + 1] # "]"
    THEN IF matched
         THEN bracketBodyLoop(str, pattern, i, j + 1, matched)
         ELSE IF j + 1 >= Len(pattern) THEN Panicked
         ELSE IF pattern[j + 2] = "-" /\ j + 2 >= Len(pattern) THEN Panicked
         ELSE LET inRange ==
                      /\ pattern[j + 2] = "-"
                      /\ pattern[j + 3] # "]"
                      /\ Byte(pattern[j + 1]) <= Byte(str[i + 1])
                      /\ Byte(str[i + 1]) <= Byte(pattern[j + 3])
              IN  bracketBodyLoop(str, pattern, i, j + 1,
                                  inRange \/ str[i + 1] = pattern[j + 1])
    ELSE [panic |-> FALSE, j |-> j, matched |-> matched]

\* the loop of stringMatch, with i in str and j in pattern (both 0-based)
stringMatchBracketLoop(str, pattern, i, j) ==
    IF i < Len(str)
    THEN IF j >= Len(pattern) THEN Matches(FALSE)
         ELSE IF pattern[j + 1] = "?"
              THEN stringMatchBracketLoop(str, pattern, i + 1, j + 1)
         ELSE IF pattern[j + 1] = "*"
              THEN starLoop(str, pattern, i, j, Len(str))
         ELSE IF pattern[j + 1] = "["
              THEN \* "switch pattern[j]" after "j++" reads past a final '['
                   IF j + 1 >= Len(pattern) THEN Panicked
                   ELSE LET special == pattern[j + 2]
                            negate == special = "!"
                            first == special = "]" /\ str[i + 1] = "]"
                            start == IF special \in {"!", "]"} THEN j + 2 ELSE j + 1
                            body == bracketBodyLoop(str, pattern, i, start, first)
                        IN  IF body.panic THEN Panicked
                            ELSE IF body.j = Len(pattern)
                                 THEN \* no ']': the '[' was just a literal
                                      IF str[i + 1] # pattern[j + 1]
                                      THEN Matches(FALSE)
                                      ELSE stringMatchBracketLoop(str, pattern, i + 1, j + 1)
                            ELSE IF body.matched = negate THEN Matches(FALSE)
                            ELSE stringMatchBracketLoop(str, pattern, i + 1, body.j + 1)
         ELSE LET jj == IF pattern[j + 1] = "\\" THEN j + 1 ELSE j
              IN  \* a final backslash makes "str[i] != pattern[j]" read past the end
                  IF jj >= Len(pattern) THEN Panicked
                  ELSE IF str[i + 1] # pattern[jj + 1] THEN Matches(FALSE)
                  ELSE stringMatchBracketLoop(str, pattern, i + 1, jj + 1)
    ELSE Matches(~(j < Len(pattern) - 1))

\* stringMatch of this revision: whether one path component matches one
\* pattern component, or a panic
stringMatchBracket(str, pattern) == stringMatchBracketLoop(str, pattern, 0, 0)

(***************************************************************************)
(* The same revision: mySplit into a buffer it is given, matchesPath,      *)
(* createRule, CompileIgnoreLines and MatchesPath                          *)
(***************************************************************************)

\* the slots of "make([]string, 2048)"
BufCap == 2048

\* the slots of a buffer that the model keeps: the first ones, the only
\* ones the generated paths reach
BufSlots == 2

\* a buffer as make gives it: every slot the empty string
FreshBuf == [n \in 1..BufSlots |-> <<>>]

\* mySplit at the start of its loop
SplitStart(buf) == [buf |-> buf, idx |-> 0, l |-> 0, done |-> FALSE, panic |-> FALSE]

RECURSIVE NextCut(_, _, _)
\* the first r >= l (0-based) with r = len(s) or s[r] = sep
NextCut(s, sep, r) ==
    IF r >= Len(s) \/ s[r + 1] = sep THEN r ELSE NextCut(s, sep, r + 1)

\* mySplit from one component to the next: the scan to the next separator
\* or to the end of s, and the write "pathComponentsBuf[idx] = s[l:r]" of a
\* component that is not empty, into a buffer of cap slots
mySplitStep(s, sep, st, cap) ==
    LET r == NextCut(s, sep, st.l)
        writes == r > st.l
    IN  IF writes /\ st.idx >= cap THEN [st EXCEPT !.panic = TRUE, !.done = TRUE]
        ELSE [buf |-> IF writes
                      THEN [st.buf EXCEPT ![st.idx + 1] = Slice(s, st.l, r)]
                      ELSE st.buf,
              idx |-> IF writes THEN st.idx + 1 ELSE st.idx,
              l |-> r + 1,
              done |-> r >= Len(s),
              panic |-> FALSE]

RECURSIVE mySplitBufLoop(_, _, _)
mySplitBufLoop(s, sep, st) ==
    IF st.done THEN st ELSE mySplitBufLoop(s, sep, mySplitStep(s, sep, st, BufCap))

\* mySplit(s, sep, pathComponentsBuf) run alone: the buffer as it leaves it
\* and the number idx of components, which are the slots before idx
mySplitBuf(s, sep, buf) == mySplitBufLoop(s, sep, SplitStart(buf))

\* "pathComponentsBuf[:idx]": the slice shares the slots of the buffer
BufSlice(buf, idx) == SubSeq(buf, 1, idx)

Components(m, f) == [panic |-> FALSE, matches |-> m, final |-> f]

RECURSIVE matchComponentsBracketLoop(_, _, _)
RECURSIVE doubleStarBracketLoop(_, _, _, _)

\* the loop "for j := len(path) - 1; j >= i; j--" of a "**" component
doubleStarBracketLoop(path, components, i, j) ==
    IF j >= i
    THEN LET m == matchComponentsBracketLoop(Drop(path, j), Drop(components, i + 1), 0)
         IN  IF m.panic THEN Panicked
             ELSE IF m.matches THEN Components(TRUE, m.final)
             ELSE doubleStarBracketLoop(path, components, i, j - 1)
    ELSE Components(FALSE, FALSE)

\* the loop of matchComponents from component i (0-based) on
matchComponentsBracketLoop(path, components, i) ==
    IF i < Len(components)
    THEN IF i >= Len(path) THEN Components(FALSE, FALSE)
         ELSE IF components[i + 1] = DoubleStar
              THEN doubleStarBracketLoop(path, components, i, Len(path) - 1)
         ELSE LET m == stringMatchBracket(path[i + 1], components[i + 1])
              IN  IF m.panic THEN Panicked
                  ELSE IF ~m.matches THEN Components(FALSE, FALSE)
                  ELSE matchComponentsBracketLoop(path, components, i + 1)
    ELSE Components(TRUE, i = Len(path))

\* matchComponents of this revision
matchComponentsBracket(path, components) ==
    matchComponentsBracketLoop(path, components, 0)

RECURSIVE suffixBracketLoop(_, _, _, _)
\* the loop "for j := len(pathComponents) - 1; j >= 0; j--" of matchesPath
suffixBracketLoop(r, pathComponents, hasSuffix, j) ==
    IF j >= 0
    THEN LET m == matchComponentsBracket(Drop(pathComponents, j), r.Components)
         IN  IF m.panic THEN Panicked
             ELSE IF m.matches
                  THEN Matches(DirectoryPolicy(r, m.final, hasSuffix))
             ELSE suffixBracketLoop(r, pathComponents, hasSuffix, j - 1)
    ELSE Matches(FALSE)

\* matchesPath after its call of mySplit: pathComponents are the slots of
\* the buffer as they are read
matchesSplitPath(r, hasSuffix, pathComponents) ==
    IF ~r.Relative
    THEN suffixBracketLoop(r, pathComponents, hasSuffix, Len(pathComponents) - 1)
    ELSE LET m == matchComponentsBracket(pathComponents, r.Components)
         IN  IF m.panic THEN Panicked
             ELSE Matches(m.matches /\ DirectoryPolicy(r, m.final, hasSuffix))

\* Rule.matchesPath(path, buf) run alone: its result and the buffer after it
matchesPath(r, path, buf) ==
    LET sp == mySplitBuf(path, "/", buf)
        m == matchesSplitPath(r, HasSuffix(path, "/"), BufSlice(sp.buf, sp.idx))
    IN  IF sp.panic \/ m.panic THEN Panicked
        ELSE [panic |-> FALSE, matches |-> m.matches, buf |-> sp.buf]

\* Rule.Match of goignore.go after its call of mySplit, which there makes a
\* buffer of its own at every call
RuleMatchSplit(r, hasSuffix, pathComponents) ==
    IF ~r.Relative
    THEN suffixLoop(r, pathComponents, hasSuffix, Len(pathComponents) - 1)
    ELSE LET m == matchComponents(pathComponents, r.Components)
         IN  m.matches /\ DirectoryPolicy(r, m.final, hasSuffix)

\* createRule of this revision: the components are strings.Split(pattern, "/")
createRuleSplit(pattern) ==
    LET negate == pattern[1] = "!"
        p1 == IF negate THEN Tail(pattern) ELSE pattern
    IN  IF Len(p1) = 0 THEN Panicked
        ELSE
        LET relative == p1[1] = "/"
            p2 == IF relative THEN Tail(p1) ELSE p1
        IN  IF Len(p2) = 0 THEN Panicked
            ELSE
            LET p3 == IF p2[1] = "\\" THEN Tail(p2) ELSE p2
            IN  IF Len(p3) = 0 THEN Panicked
                ELSE
                LET onlyDirectory == p3[Len(p3)] = "/"
                    components == Split(p3, "/")
                IN  [panic |-> FALSE,
                     rule |-> [Components |-> components,
                               Negate |-> negate,
                               OnlyDirectory |-> onlyDirectory,
                               Relative |-> relative \/ Len(components) > 1]]

RECURSIVE compileSplitLoop(_, _, _)
\* the loop "for _, pattern := range patterns" from line idx (1-based) on
compileSplitLoop(patterns, idx, rules) ==
    IF idx > Len(patterns)
    THEN [panic |-> FALSE,
          gitignore |-> [Rules |-> rules, pathComponentsBuf |-> FreshBuf]]
    ELSE LET pattern == Trim(patterns[idx])
         IN  IF Len(pattern) = 0 \/ pattern[1] = "#"
             THEN compileSplitLoop(patterns, idx + 1, rules)
             ELSE LET c == createRuleSplit(pattern)
                  IN  IF c.panic THEN Panicked
                      ELSE compileSplitLoop(patterns, idx + 1, Append(rules, c.rule))

\* CompileIgnoreLines of this revision: a GitIgnore with its rules and its
\* one buffer
CompileIgnoreLinesBuf(patterns) == compileSplitLoop(patterns, 1, <<>>)

RECURSIVE matchesPathLoop(_, _, _, _, _)
\* the loop "for _, rule := range g.Rules" from rule idx (1-based) on, every
\* rule splitting the path into the buffer again
matchesPathLoop(rules, path, idx, matched, buf) ==
    IF idx > Len(rules) THEN [panic |-> FALSE, matched |-> matched, buf |-> buf]
    ELSE LET m == matchesPath(rules[idx], path, buf)
         IN  IF m.panic THEN Panicked
             ELSE matchesPathLoop(rules, path, idx + 1,
                                  IF m.matches THEN ~rules[idx].Negate ELSE matched,
                                  m.buf)

\* GitIgnore.MatchesPath run alone: the verdict and the buffer after it
MatchesPath(g, path, sep) ==
    matchesPathLoop(g.Rules, ToSlash(path, sep), 1, FALSE, g.pathComponentsBuf)

(***************************************************************************)
(* The program: one ignore set is compiled, then queried any number of    *)
(* times.                                                                  *)
(***************************************************************************)

VARIABLES
    separator,  \* os.PathSeparator of the build
    patterns,   \* the lines CompileIgnoreLines was called with
    pc,         \* "start", "ready", "returned" or "panicked"
    gitignore,  \* the *Gitignore the compiler returned, Nil before
    err,        \* the error CompileIgnoreFile returned
    path,       \* the path of the query that has just returned
    hits,       \* rule.Match(path) of each rule in that query
    matched     \* the verdict that query returned

apiVars == <<separator, patterns, pc, gitignore, err, path, hits, matched>>

Nil == [nil |-> TRUE]
NoPath == <<"\n">>

\* a direct call of stringMatch, as the package's own code and tests make it
VARIABLES
    callee,     \* the function that has just returned, NoCall between calls
    str,        \* the text it was called with
    pattern,    \* the pattern it was called with
    result,     \* what it returned
    panicked    \* it panicked instead of returning

matchVars == <<callee, str, pattern, result, panicked>>

\* queries that run at the same time on one compiled ignore set
VARIABLES
    revision,   \* which of the two revisions of the package was compiled
    calls       \* the frame of the query of each goroutine

queryVars == <<revision, calls>>

vars == <<apiVars, matchVars, queryVars>>

\* goignore.go, where mySplit makes a buffer at every call, and the revision
\* whose GitIgnore owns the one buffer that every MatchesPath call uses
BufferPerCall == "buffer per call"
OneBuffer == "one buffer"
Revisions == {BufferPerCall, OneBuffer}

\* the most goroutines that query at the same time
MaxGoroutines == 2
Goroutines == 1..MaxGoroutines

\* the frame of a goroutine that is not in a query
IdleCall ==
    [pc |-> "idle", path |-> NoPath, rule |-> 0, matched |-> FALSE,
     l |-> 0, idx |-> 0, buf |-> <<>>]

\* no goroutine queries
NoQueries ==
    /\ revision = BufferPerCall
    /\ calls = [g \in Goroutines |-> IdleCall]

NoCall == "none"

\* no direct call of stringMatch has been made
NoStringMatchCall ==
    /\ callee = NoCall
    /\ str = <<>>
    /\ pattern = <<>>
    /\ result = FALSE
    /\ panicked = FALSE

Init ==
    /\ separator \in Separators
    /\ patterns = <<>>
    /\ pc = "start"
    /\ gitignore = Nil
    /\ err = NoError
    /\ path = NoPath
    /\ hits = <<>>
    /\ matched = FALSE
    /\ NoStringMatchCall
    /\ NoQueries

\* the caller compiles a list of lines with CompileIgnoreLines
CallCompileIgnoreLines ==
    /\ pc = "start"
    /\ \E lines \in PatternLists :
           LET c == CompileIgnoreLines(lines)
           IN  /\ patterns' = lines
               /\ IF c.panic
                  THEN pc' = "panicked" /\ UNCHANGED gitignore
                  ELSE pc' = "ready" /\ gitignore' = c.gitignore
    /\ UNCHANGED <<separator, err, path, hits, matched>>
    /\ UNCHANGED <<matchVars, queryVars>>

\* the caller compiles a file with CompileIgnoreFile; the file holds a list
\* of lines and can be read or not
CallCompileIgnoreFile ==
    /\ pc = "start"
    /\ \E readable \in BOOLEAN, lines \in PatternLists :
           LET content == Join(lines, "\n")
               c == CompileIgnoreFile(readable, content)
           IN  /\ patterns' = Split(ReadFile(readable, content).lines, "\n")
               /\ IF c.panic
                  THEN pc' = "panicked" /\ UNCHANGED <<gitignore, err>>
                  ELSE pc' = "ready" /\ gitignore' = c.gitignore /\ err' = c.err
    /\ UNCHANGED <<separator, path, hits, matched>>
    /\ UNCHANGED <<matchVars, queryVars>>

\* the caller queries a path with Gitignore.Match
CallMatch ==
    /\ pc = "ready"
    /\ \E p \in Paths :
           IF MatchPanics(gitignore, p, separator)
           THEN pc' = "panicked" /\ UNCHANGED <<path, hits, matched>>
           ELSE /\ pc' = "returned"
                /\ path' = p
                /\ hits' = RuleHits(gitignore, p, separator)
                /\ matched' = GitignoreMatch(gitignore, p, separator)
    /\ UNCHANGED <<separator, patterns, gitignore, err>>
    /\ UNCHANGED <<matchVars, queryVars>>

\* the caller has used the verdict; the Gitignore keeps nothing of a query
Return ==
    /\ pc = "returned"
    /\ pc' = "ready"
    /\ path' = NoPath
    /\ hits' = <<>>
    /\ matched' = FALSE
    /\ UNCHANGED <<separator, patterns, gitignore, err>>
    /\ UNCHANGED <<matchVars, queryVars>>

Next ==
    \/ CallCompileIgnoreLines
    \/ CallCompileIgnoreFile
    \/ CallMatch
    \/ Return

Spec == Init /\ [][Next]_vars

(***************************************************************************)
(* stringMatch on its own: one text against one pattern component          *)
(***************************************************************************)

\* the longest generated text and the longest generated pattern component
MaxTextLen == 3
MaxGlobLen == 3

\* the characters of generated texts
TextChars == {"a", "b"}

\* the characters of generated pattern components: two literals and the two
\* wildcards
GlobChars == {"a", "b", "?", "*"}

\* "*.c" against "x.", and "*.swp" against "yo.swp"
GlobC == <<"*", ".", "c">>
TextXDot == <<"x", ".">>
GlobSwp == <<"*", ".", "s", "w", "p">>
TextYoSwp == <<"y", "o", ".", "s", "w", "p">>

Texts == Strings(TextChars, 0, MaxTextLen) \cup {TextXDot, TextYoSwp}

Globs == Strings(GlobChars, 0, MaxGlobLen) \cup {GlobC, GlobSwp}

\* the characters of the texts given to the revision with brackets
BracketTextChars == {"a", "b", "[", "]"}

\* the characters of its pattern components: a literal, the characters of a
\* bracket expression, a wildcard and the escape
BracketGlobChars == {"a", "[", "]", "!", "-", "*", "\\"}

\* a range, a negated range, a set that begins with ']', and expressions
\* without their ']': a range, a negated set, a range cut after the '-'
GlobRange == <<"[", "a", "-", "b", "]">>
GlobNotRange == <<"[", "!", "a", "-", "b", "]">>
GlobBracketSet == <<"[", "]", "a", "]">>
GlobOpenRange == <<"[", "a", "-", "b">>
GlobOpenNegated == <<"[", "!", "a", "b">>
GlobOpenAfterStar == <<"*", "[", "a", "-">>

BracketTexts == Strings(BracketTextChars, 0, MaxTextLen)

BracketGlobs ==
    Strings(BracketGlobChars, 0, MaxGlobLen)
        \cup {GlobRange, GlobNotRange, GlobBracketSet,
              GlobOpenRange, GlobOpenNegated, GlobOpenAfterStar}

InitStringMatch ==
    /\ separator \in Separators
    /\ patterns = <<>>
    /\ pc = "start"
    /\ gitignore = Nil
    /\ err = NoError
    /\ path = NoPath
    /\ hits = <<>>
    /\ matched = FALSE
    /\ NoStringMatchCall
    /\ NoQueries

\* matchComponents, or a test, calls stringMatch
CallStringMatch ==
    /\ callee = NoCall
    /\ \E s \in Texts, p \in Globs :
           /\ str' = s
           /\ pattern' = p
           /\ result' = stringMatch(s, p)
    /\ callee' = "stringMatch"
    /\ panicked' = FALSE
    /\ UNCHANGED <<apiVars, queryVars>>

\* matchComponents of the revision with brackets calls its stringMatch
CallStringMatchBracket ==
    /\ callee = NoCall
    /\ \E s \in BracketTexts, p \in BracketGlobs :
           LET r == stringMatchBracket(s, p)
           IN  /\ str' = s
               /\ pattern' = p
               /\ panicked' = r.panic
               /\ result' = IF r.panic THEN FALSE ELSE r.matches
    /\ callee' = "stringMatchBracket"
    /\ UNCHANGED <<apiVars, queryVars>>

\* the caller has used the result; stringMatch keeps nothing of a call
ReturnStringMatch ==
    /\ callee # NoCall
    /\ callee' = NoCall
    /\ str' = <<>>
    /\ pattern' = <<>>
    /\ result' = FALSE
    /\ panicked' = FALSE
    /\ UNCHANGED <<apiVars, queryVars>>

NextStringMatch ==
    \/ CallStringMatch
    \/ CallStringMatchBracket
    \/ ReturnStringMatch

SpecStringMatch == InitStringMatch /\ [][NextStringMatch]_vars

(***************************************************************************)
(* Queries of several goroutines on one compiled ignore set.  A query is   *)
(* the loop over the rules; for every rule mySplit writes the components   *)
(* of the path into a buffer, one write at a time, and the rule is then    *)
(* matched against the slots it wrote.  In goignore.go the buffer is made  *)
(* by mySplit at every call (line 14); in the other revision it is the     *)
(* one buffer of the GitIgnore (part_002:397, 468), read and written by    *)
(* every call without a lock.                                              *)
(***************************************************************************)

\* the lines compiled for the queries: a name, a two-component pattern, an
\* exclusion with a re-inclusion, a range, a "**" and a directory
QueryLines ==
    {
       << <<"a">> >>,
       << <<"a", "/", "b">> >>,
       << <<"*">>, <<"!", "b">> >>,
       << <<"[", "a", "-", "b", "]">> >>,
       << <<"*", "*", "/", "b">> >>,
       << <<"b", "/">> >>
    }

\* the paths queried: of one and of two components
QueryPaths ==
    {<<"a">>, <<"b">>, <<"c">>, <<"a", "/">>, <<"a", "/", "b">>, <<"b", "/", "a">>}

InitQueries ==
    /\ separator \in Separators
    /\ patterns = <<>>
    /\ pc = "start"
    /\ gitignore = Nil
    /\ err = NoError
    /\ path = NoPath
    /\ hits = <<>>
    /\ matched = FALSE
    /\ NoStringMatchCall
    /\ NoQueries

\* the program compiles its lines with CompileIgnoreLines of one of the two
\* revisions
CompileRevision ==
    /\ pc = "start"
    /\ \E rev \in Revisions, lines \in QueryLines :
           LET c == IF rev = OneBuffer
                    THEN CompileIgnoreLinesBuf(lines)
                    ELSE CompileIgnoreLines(lines)
           IN  /\ patterns' = lines
               /\ revision' = rev
               /\ IF c.panic
                  THEN pc' = "panicked" /\ UNCHANGED gitignore
                  ELSE pc' = "ready" /\ gitignore' = c.gitignore
    /\ UNCHANGED <<separator, err, path, hits, matched, calls, matchVars>>

\* the frame of a query at the mySplit call of rule n (1-based), or at its
\* return when there is no such rule
AtRule(c, n) ==
    IF n > Len(gitignore.Rules)
    THEN [c EXCEPT !.pc = "done", !.rule = n]
    ELSE [c EXCEPT !.pc = "split", !.rule = n, !.l = 0, !.idx = 0,
                   !.buf = IF revision = OneBuffer THEN <<>> ELSE FreshBuf]

\* goroutine g calls Match, or MatchesPath, with a path
StartQuery(g) ==
    /\ pc = "ready"
    /\ calls[g].pc = "idle"
    /\ \E p \in QueryPaths :
           calls' = [calls EXCEPT ![g] =
                        AtRule([IdleCall EXCEPT !.path = ToSlash(p, separator)], 1)]
    /\ UNCHANGED <<apiVars, matchVars, revision>>

\* mySplit in the query of goroutine g gets to the next component of the
\* path and writes it into the buffer
SplitStep(g) ==
    /\ calls[g].pc = "split"
    /\ LET c == calls[g]
           shared == revision = OneBuffer
           st == [SplitStart(IF shared THEN gitignore.pathComponentsBuf ELSE c.buf)
                     EXCEPT !.idx = c.idx, !.l = c.l]
           st2 == mySplitStep(c.path, "/", st, IF shared THEN BufCap ELSE SplitCap)
       IN  /\ calls' = [calls EXCEPT ![g] =
                  IF st2.panic THEN [c EXCEPT !.pc = "panicked"]
                  ELSE [c EXCEPT !.pc = IF st2.done THEN "match" ELSE "split",
                                 !.l = st2.l,
                                 !.idx = st2.idx,
                                 !.buf = IF shared THEN c.buf ELSE st2.buf]]
           /\ gitignore' = IF shared /\ ~st2.panic
                           THEN [gitignore EXCEPT !.pathComponentsBuf = st2.buf]
                           ELSE gitignore
    /\ UNCHANGED <<separator, patterns, pc, err, path, hits, matched>>
    /\ UNCHANGED <<matchVars, revision>>

\* the rule is matched against the slots of the buffer that mySplit handed
\* back, as they are now, and the loop of the query goes to its next rule
MatchStep(g) ==
    /\ calls[g].pc = "match"
    /\ LET c == calls[g]
           shared == revision = OneBuffer
           r == gitignore.Rules[c.rule]
           hasSuffix == HasSuffix(c.path, "/")
           components == BufSlice(IF shared THEN gitignore.pathComponentsBuf ELSE c.buf,
                                  c.idx)
           m == IF shared
                THEN matchesSplitPath(r, hasSuffix, components)
                ELSE Matches(RuleMatchSplit(r, hasSuffix, components))
       IN  calls' = [calls EXCEPT ![g] =
               IF m.panic THEN [c EXCEPT !.pc = "panicked"]
               ELSE AtRule([c EXCEPT !.matched = IF m.matches THEN ~r.Negate
                                                 ELSE c.matched],
                           c.rule + 1)]
    /\ UNCHANGED <<apiVars, matchVars, revision>>

\* goroutine g has used the verdict
ReturnQuery(g) ==
    /\ calls[g].pc = "done"
    /\ calls' = [calls EXCEPT ![g] = IdleCall]
    /\ UNCHANGED <<apiVars, matchVars, revision>>

NextQueries ==
    \/ CompileRevision
    \/ \E g \in Goroutines : StartQuery(g)
    \/ \E g \in Goroutines : SplitStep(g)
    \/ \E g \in Goroutines : MatchStep(g)
    \/ \E g \in Goroutines : ReturnQuery(g)

SpecQueries == InitQueries /\ [][NextQueries]_vars

(***************************************************************************)
(* Vocabulary of the properties                                            *)
(***************************************************************************)

\* a query has returned and its verdict is in matched
Returned == pc = "returned"

\* the path as Gitignore.Match hands it to the rules
slashPath == ToSlash(path, separator)

Rules == gitignore.Rules

RuleIndexes == 1..Len(Rules)

\* the indexes of the rules that matched the path of the query
MatchingRules == {i \in RuleIndexes : hits[i]}

Max(S) == CHOOSE m \in S : \A n \in S : n <= m

\* a single pattern component without wildcard that needs no escape and
\* no trimming
IsLiteralComponent(p) ==
    /\ Len(p) > 0
    /\ \A i \in 1..Len(p) : p[i] \notin {"*", "?", "/"}
    /\ p[1] \notin {"!", "\\", "#"}
    /\ p[1] \notin TrimCutset
    /\ p[Len(p)] \notin TrimCutset

\* a path of one component and no separator
IsSingleComponent(q) == Len(q) > 0 /\ \A i \in 1..Len(q) : q[i] # "/"

\* q = d + "/" + p for a non-empty directory prefix d
IsUnderSomeDirectory(q, p) ==
    /\ Len(q) > Len(p) + 1
    /\ SubSeq(q, Len(q) - Len(p), Len(q)) = <<"/">> \o p

\* q = d + "/" + x for a path x of at least one component
IsNestedUnder(q, d) ==
    /\ Len(q) > Len(d) + 1
    /\ SubSeq(q, 1, Len(d) + 1) = d \o <<"/">>
    /\ Len(mySplit(Drop(q, Len(d) + 1), "/")) > 0

\* the rules with the Negate flag of every rule that missed the path flipped
FlipMissed(rules) ==
    [i \in 1..Len(rules) |->
        IF hits[i] THEN rules[i]
        ELSE [rules[i] EXCEPT !.Negate = ~rules[i].Negate]]

(***************************************************************************)
(* C1  Last matching rule wins                                             *)
(***************************************************************************)

\* C1: Gitignore.Match returns true if and only if at least one rule matches
\* the path and the last rule that matches it is not negated; with no matching
\* rule it returns false, and flipping the Negate flag of the rules that do not
\* match the path leaves the verdict as it is.
C1_LastMatchWins ==
    Returned =>
        /\ hits = [i \in RuleIndexes |-> RuleMatch(Rules[i], slashPath)]
        /\ matched <=> (MatchingRules # {} /\ ~Rules[Max(MatchingRules)].Negate)
        /\ matched = GitignoreMatch([Rules |-> FlipMissed(Rules)], path, separator)

\* a query in which an excluding rule matched, a later negated rule matched
\* too and a rule after both missed: the verdict is that of the negated rule
C1_Witness ==
    /\ Returned
    /\ ~matched
    /\ \E i, j, k \in RuleIndexes :
           /\ i < j /\ j < k
           /\ hits[i] /\ ~Rules[i].Negate
           /\ hits[j] /\ Rules[j].Negate
           /\ ~hits[k] /\ ~Rules[k].Negate

(***************************************************************************)
(* C2  Exact literal matching                                              *)
(***************************************************************************)

\* C2: with the single pattern p, a literal component, Match(p) is true,
\* Match(d + "/" + p) is true for every directory prefix d, and Match(p2) is
\* false for every single-component path p2 other than p.
C2_ExactLiteral ==
    (Returned /\ Len(patterns) = 1 /\ IsLiteralComponent(patterns[1])) =>
        /\ path = patterns[1] => matched
        /\ IsUnderSomeDirectory(path, patterns[1]) => matched
        /\ (IsSingleComponent(path) /\ path # patterns[1]) => ~matched

(***************************************************************************)
(* C3  A negated rule and the paths under the directory it names           *)
(***************************************************************************)

\* C3 as stated: with the rules ["/*", "!/foo"], Match("foo") is false and
\* Match("foo/bar") is true.
C3_NegationKeepsDescendantsIgnored ==
    (Returned /\ patterns = LinesNegateFoo) =>
        /\ path = PathFoo => ~matched
        /\ path = PathFooBar => matched

\* C3 amended: with the rules ["/*", "!/foo"], Match("foo") is false and
\* Match("foo/bar") is false too: both rules match "foo/bar", and the negated
\* rule "!/foo", the last one, re-includes the paths under foo with foo itself.
C3_NegationReincludesDescendants ==
    (Returned /\ patterns = LinesNegateFoo) =>
        /\ path = PathFoo => ~matched
        /\ path = PathFooBar => (hits = <<TRUE, TRUE>> /\ ~matched)

\* the query of "foo/bar" against ["/*", "!/foo"] has returned
C3_Witness == Returned /\ patterns = LinesNegateFoo /\ path = PathFooBar

(***************************************************************************)
(* C4  Directory-only rules                                                *)
(***************************************************************************)

\* the literal component d of a single pattern d + "/"
dirName == SubSeq(patterns[1], 1, Len(patterns[1]) - 1)

\* C4: with the single pattern d + "/", d a literal component, Match(d) is
\* false, Match(d + "/") is true and Match(d + "/" + x) is true for every
\* non-empty path x, whatever its components and whether or not it ends with
\* a separator.
C4_DirectoryOnly ==
    (/\ Returned
     /\ Len(patterns) = 1
     /\ HasSuffix(patterns[1], "/")
     /\ IsLiteralComponent(dirName)) =>
        /\ path = dirName => ~matched
        /\ path = patterns[1] => matched
        /\ IsNestedUnder(path, dirName) => matched

(***************************************************************************)
(* C5  Anchoring                                                           *)
(***************************************************************************)

\* a compile call has returned a Gitignore
Compiled == pc \in {"ready", "returned"}

IsRuleLine(l) == Len(l) > 0 /\ l[1] # "#"

\* the trimmed lines that are neither blank nor comments, in input order
RuleLines(lines) == SelectSeq([i \in 1..Len(lines) |-> Trim(lines[i])], IsRuleLine)

\* the line begins with '/', after an optional '!'
BeginsWithSlash(l) ==
    LET rest == IF l[1] = "!" THEN Tail(l) ELSE l
    IN  Len(rest) > 0 /\ rest[1] = "/"

\* the components of the path of the query
pathComponents == mySplit(slashPath, "/")

\* the rule's components match the path components from position j (0-based)
MatchesAt(r, j) == matchComponents(Drop(pathComponents, j), r.Components).matches

Suffixes(s) == {Drop(s, j) : j \in 0..Len(s)}

\* matchComponents(pth, cs) gets to component i (0-based), a "**", with the
\* path components before position i matched by the components before it
ReachesDoubleStar(pth, cs, i) ==
    /\ i < Len(cs)
    /\ i < Len(pth)
    /\ cs[i + 1] = DoubleStar
    /\ \A k \in 1..i : cs[k] # DoubleStar /\ stringMatch(pth[k], cs[k])

\* C6: when matchComponents reaches a "**" at path position i and the rest B
\* of the pattern is not empty, it succeeds if and only if B matches the path
\* from position i + k for some k >= 0.  This is stated of every call that
\* Rule.Match and the "**" branch make: of every suffix of the path against
\* every suffix of the rule's components.  With the rules ["**/foo", "bar"],
\* Match is true for "foo", "baz/foo", "bar" and "baz/bar".
C6_DoubleStar ==
    /\ Returned =>
           \A r \in {Rules[n] : n \in RuleIndexes} :
               \A pth \in Suffixes(pathComponents), cs \in Suffixes(r.Components) :
                   \A i \in 0..(Len(cs) - 2) :
                       ReachesDoubleStar(pth, cs, i) =>
                           (matchComponents(pth, cs).matches <=>
                                \E k \in 0..(Len(pth) - i) :
                                    matchComponents(Drop(pth, i + k),
                                                    Drop(cs, i + 1)).matches)
    /\ (Returned /\ patterns = LinesDoubleStar) =>
           (path \in {PathFoo, PathBazFoo, PathBar, PathBazBar} => matched)

\* "**/foo" has matched "foo": the "**" absorbed no component
C6_Witness ==
    /\ Returned
    /\ patterns = LinesDoubleStar
    /\ path = PathFoo
    /\ hits[1]
    /\ ReachesDoubleStar(pathComponents, Rules[1].Components, 0)

(***************************************************************************)
(* C7  A rule that matches a path matches everything beneath it            *)
(***************************************************************************)

\* the most components appended to a path
MaxExtComponents == 1

\* the paths of one to MaxExtComponents one-letter components, with or
\* without a separator at the end
Extensions ==
    LET names == UNION {[1..k -> PathChars \ {"/"}] : k \in 1..MaxExtComponents}
        joined == {Join([i \in 1..Len(ns) |-> <<ns[i]>>], "/") : ns \in names}
    IN  joined \cup {x \o <<"/">> : x \in joined}

\* the path p with the components of x appended
Extend(p, x) == IF HasSuffix(p, "/") THEN p \o x ELSE p \o <<"/">> \o x

\* C7: a rule that is not directory-only and matches a path also matches
\* every path made by appending components to it; "/a/b/c" matches "a/b/c/d"
\* and "node_modules" matches "node_modules/test/foo.js".
C7_MatchesDescendants ==
    /\ Returned =>
           \A i \in RuleIndexes :
               (hits[i] /\ ~Rules[i].OnlyDirectory) =>
                   \A x \in Extensions : RuleMatch(Rules[i], Extend(slashPath, x))
    /\ (Returned /\ patterns = LinesLeadingSlash /\ path = PathABCD) => hits[1]
    /\ (Returned /\ patterns = LinesExample /\ path = PathNodeModulesFooJs) => hits[1]

\* "/a/b/c" has matched "a/b/c", the path that "a/b/c/d" extends
C7_Witness ==
    /\ Returned
    /\ patterns = LinesLeadingSlash
    /\ path = PathABC
    /\ hits[1]
    /\ ~Rules[1].OnlyDirectory

(***************************************************************************)
(* C8  Leading control characters and their escapes                        *)
(***************************************************************************)

\* the line begins with "\#" or "\!"
IsEscapedLine(l) == Len(l) >= 2 /\ l[1] = "\\" /\ l[2] \in {"#", "!"}

\* C8: a line whose first character after trimming is '#' gives no rule: the
\* rules are those of the other non-blank lines.  A line beginning with "\#"
\* or "\!" gives a rule that is not negated, whose pattern is the line without
\* the backslash and so starts with '#' or '!', and that is not Relative when
\* it has one component.  ["\#file.txt"] matches "#file.txt" and
\* "a/#file.txt".
C8_LeadingSpecialChars ==
    /\ Compiled =>
           /\ Len(Rules) = Len(RuleLines(patterns))
           /\ \A i \in RuleIndexes :
                  LET l == RuleLines(patterns)[i]
                  IN  IsEscapedLine(l) =>
                          /\ ~Rules[i].Negate
                          /\ Rules[i].Components = mySplit(Tail(l), "/")
                          /\ Rules[i].Components[1][1] = l[2]
                          /\ Len(Rules[i].Components) = 1 => ~Rules[i].Relative
    /\ (Returned /\ patterns = LinesEscapedHash) =>
           (path \in {PathHashFile, PathAHashFile} => matched)

\* of ["# Comment", "\#file.txt", "\!file.txt", "file.txt"] the comment gave no
\* rule, and the rule of "\!file.txt" alone has matched "a/!file.txt"
C8_Witness ==
    /\ Returned
    /\ patterns = LinesLeadingSpecialChars
    /\ path = PathABangFile
    /\ Len(Rules) = 3
    /\ hits = <<FALSE, TRUE, FALSE>>
    /\ matched

(***************************************************************************)
(* C9  No input crashes the engine                                         *)
(***************************************************************************)

\* C9: CompileIgnoreLines returns a rule list and Match returns a verdict for
\* every list of lines and every path: no call panics.
C9_NoPanic == pc # "panicked"

(***************************************************************************)
(* C10  CompileIgnoreFile on an unreadable file                            *)
(***************************************************************************)

\* C10: when CompileIgnoreFile returns an error it returns no Gitignore.
C10_NoGitignoreWithError == (Compiled /\ err # NoError) => gitignore = Nil

(***************************************************************************)
(* C12  Glob segment semantics                                             *)
(***************************************************************************)

RECURSIVE Aligns(_, _)
\* the pattern can be laid along the whole text: a literal on the same
\* character, a '?' on exactly one character, a '*' on zero or more
Aligns(text, glob) ==
    IF glob = <<>> THEN text = <<>>
    ELSE IF Head(glob) = "*"
         THEN \E k \in 0..Len(text) : Aligns(Drop(text, k), Tail(glob))
         ELSE /\ text # <<>>
              /\ Head(glob) \in {"?", Head(text)}
              /\ Aligns(Tail(text), Tail(glob))

\* C12: for every text and every pattern of literal characters, '?' and '*',
\* stringMatch(text, pattern) is true if and only if the pattern can be
\* aligned with the whole text, each literal on the same character, each '?'
\* on exactly one character and each '*' on zero or more characters; so it
\* is false when the text is exhausted and the pattern left over is anything
\* other than a single trailing '*': "a?" does not match "a" and "*.c" does
\* not match "x.".
C12_GlobSemantics ==
    callee = "stringMatch" => (result <=> Aligns(str, pattern))

(***************************************************************************)
(* C13  Which suffix decides when several match                            *)
(***************************************************************************)

Min(S) == CHOOSE m \in S : \A n \in S : m <= n

\* the positions j (0-based) from lo on at which the suffix pth[j:] is
\* matched by the components cs
MatchingSuffixes(pth, cs, lo) ==
    {j \in lo..(Len(pth) - 1) : matchComponents(Drop(pth, j), cs).matches}

\* the pair matchComponents gives for the longest matching suffix of pth
LongestSuffixPair(pth, cs, lo) ==
    matchComponents(Drop(pth, Min(MatchingSuffixes(pth, cs, lo))), cs)

\* C13: when Rule.Match searches the suffixes of the path for a rule that is
\* not Relative, and when matchComponents expands a "**", the suffixes are
\* tried from the longest to the shortest and the first success decides: if
\* more than one suffix matches, the pair (matches, final) that is used is
\* that of the longest matching suffix.  The second conjunct is stated of
\* every call that Rule.Match and the "**" branch make.
C13_LongestSuffixFirst ==
    Returned =>
        /\ \A n \in RuleIndexes :
               (/\ ~Rules[n].Relative
                /\ MatchingSuffixes(pathComponents, Rules[n].Components, 0) # {}) =>
                   hits[n] =
                       DirectoryPolicy(Rules[n],
                           LongestSuffixPair(pathComponents, Rules[n].Components, 0).final,
                           HasSuffix(slashPath, "/"))
        /\ \A r \in {Rules[n] : n \in RuleIndexes} :
               \A pth \in Suffixes(pathComponents), cs \in Suffixes(r.Components) :
                   \A i \in 0..(Len(cs) - 1) :
                       (/\ ReachesDoubleStar(pth, cs, i)
                        /\ MatchingSuffixes(pth, Drop(cs, i + 1), i) # {}) =>
                           matchComponents(pth, cs) =
                               LongestSuffixPair(pth, Drop(cs, i + 1), i)

(***************************************************************************)
(* C14  What every compiled rule looks like                                *)
(***************************************************************************)

\* C14: whenever CompileIgnoreLines returns, every rule of the list has at
\* least one component and no component is the empty string, whether the
\* line ended with '/', had a doubled '/' or was "//"; and the rules are in
\* input order, one for each line that is neither blank nor a comment.
C14_CompiledRuleInvariant ==
    Compiled =>
        /\ Len(Rules) = Len(RuleLines(patterns))
        /\ \A n \in RuleIndexes :
               /\ Rules[n] = createRule(RuleLines(patterns)[n]).rule
               /\ Len(Rules[n].Components) >= 1
               /\ \A k \in 1..Len(Rules[n].Components) :
                      Rules[n].Components[k] # <<>>

(***************************************************************************)
(* C15  A bracket expression without its ']'                               *)
(***************************************************************************)

\* the '[' at position k (1-based) of glob has no closing ']': none after
\* the '!' or the ']' that may follow the '[' at once
OpenBracketAt(glob, k) ==
    /\ glob[k] = "["
    /\ LET from == IF k < Len(glob) /\ glob[k + 1] \in {"!", "]"} THEN k + 2 ELSE k + 1
       IN  \A n \in from..Len(glob) : glob[n] # "]"

\* every '[' of glob is without its ']', there is at least one, and no
\* character of glob is escaped
HasOnlyOpenBrackets(glob) ==
    /\ \E k \in 1..Len(glob) : glob[k] = "["
    /\ \A k \in 1..Len(glob) : glob[k] = "[" => OpenBracketAt(glob, k)
    /\ \A k \in 1..Len(glob) : glob[k] # "\\"

\* C15: in the stringMatch that supports brackets, for every text and every
\* pattern in which a '[' has no closing ']' before the end of the pattern
\* (a pattern that ends right after '[' or "[!", or whose bracket body has no
\* character equal to the current text character, included) the call
\* completes without a panic and returns what it returns with that '['
\* taken as a literal character: what the stringMatch without the '[' case
\* returns.
C15_UnterminatedBracketIsLiteral ==
    (callee = "stringMatchBracket" /\ HasOnlyOpenBrackets(pattern)) =>
        /\ ~panicked
        /\ result = stringMatch(str, pattern)

(***************************************************************************)
(* C11  Verdicts do not depend on the schedule of the queries              *)
(***************************************************************************)

\* the verdict that the rule list and the path alone determine: that of the
\* query run with no other query at the same time
VerdictAlone(p) ==
    IF revision = OneBuffer
    THEN MatchesPath(gitignore, p, "/").matched
    ELSE GitignoreMatch(gitignore, p, "/")

\* the rule list as the compiler returned it
CompiledRules ==
    IF revision = OneBuffer
    THEN CompileIgnoreLinesBuf(patterns).gitignore.Rules
    ELSE CompileIgnoreLines(patterns).gitignore.Rules

\* C11: whatever the schedule of the queries on one compiled ignore set, the
\* same path again and again in sequence or different paths at the same
\* time, every call returns the verdict that the rule list and its own path
\* determine, and the rule list is left as it was compiled; this for the
\* revision whose ignore set owns the one buffer of every MatchesPath call
\* as for the revision that makes a buffer at every call.
C11_VerdictIndependentOfSchedule ==
    pc = "ready" =>
        /\ gitignore.Rules = CompiledRules
        /\ \A g \in Goroutines :
               /\ calls[g].pc # "panicked"
               /\ calls[g].pc = "done" =>
                      calls[g].matched = VerdictAlone(calls[g].path)

=============================================================================
